---- MODULE Spec2Model ----
(***************************************************************************)
(* Environment source of config-rs (src/env.rs): the builder of the        *)
(* Environment configuration and Environment::collect, which turns the     *)
(* process environment into a map from normalised keys to values.          *)
(*                                                                         *)
(* A string is a sequence of characters; a character is a one-element      *)
(* name.  Two characters are not ASCII: KELVIN (U+212A, three bytes in     *)
(* UTF-8, lower-cased to "k") and BADBYTE, a byte that is not valid        *)
(* Unicode (an OsString holding it cannot be converted to a String).       *)
(***************************************************************************)
EXTENDS Integers, Sequences, FiniteSets, TLC

VARIABLES
    cfg,      \* the Environment value: prefix, separator, ignore_empty, parse_numbers
    env,      \* the process environment: the sequence of (name, value) pairs env::vars() yields
    pc,       \* "idle" | "collecting" | "panicked"
    i,        \* position of the for loop of collect in env
    m,        \* the HashMap collect is building
    src,      \* history: for each key of m, the position in env of the pair that wrote it
    result,   \* what the latest collect() on this configuration returned
    prev,     \* what the collect() before it returned (same configuration)
    last,     \* history: per field, the argument of the last call of its mutator
    fresh     \* history: no mutator has been called since construction

vars == <<cfg, env, pc, i, m, src, result, prev, last, fresh>>

-----------------------------------------------------------------------------
(* Bounds of the model *)

\* largest number of variables in the environment
MaxEnv == 2

\* longest value string drawn exhaustively over ValueChars
MaxValLen == 2

-----------------------------------------------------------------------------
(* Characters and strings *)

KELVIN == "KELVIN"

BADBYTE == "xFF"

Digits == {"0", "1", "2", "3", "4", "5", "6", "7", "8", "9"}

\* char::to_lowercase, on the characters the model uses
LowerOf(c) ==
    CASE c = "K" -> "k"
      [] c = "X" -> "x"
      [] c = "Y" -> "y"
      [] c = KELVIN -> "k"
      [] OTHER -> c

\* the characters to_lowercase changes
UpperChars == {"K", "X", "Y", KELVIN}

\* str::to_lowercase
ToLowercase(s) == [n \in 1..Len(s) |-> LowerOf(s[n])]

\* char::len_utf8
Utf8Len(c) == IF c = KELVIN THEN 3 ELSE 1

\* str::len: the length in bytes
RECURSIVE ByteLen(_)
ByteLen(s) == IF s = <<>> THEN 0 ELSE Utf8Len(Head(s)) + ByteLen(Tail(s))

\* str::starts_with
StartsWith(s, p) == Len(p) <= Len(s) /\ SubSeq(s, 1, Len(p)) = p

\* str::is_char_boundary
IsCharBoundary(s, n) == \E c \in 0..Len(s) : ByteLen(SubSeq(s, 1, c)) = n

\* &s[n..]: the slice from byte offset n; it panics when n is past the end
\* or inside a character
SliceFrom(s, n) ==
    IF IsCharBoundary(s, n)
    THEN LET c == CHOOSE c \in 0..Len(s) : ByteLen(SubSeq(s, 1, c)) = n
         IN  [ok |-> TRUE, str |-> SubSeq(s, c + 1, Len(s))]
    ELSE [ok |-> FALSE, str |-> <<>>]

\* str::replace: every non-overlapping match of from, left to right; the
\* empty pattern matches before every character and at the end
RECURSIVE Replace(_, _, _)
Replace(s, from, to) ==
    IF from = <<>>
    THEN IF s = <<>> THEN to ELSE to \o <<Head(s)>> \o Replace(Tail(s), from, to)
    ELSE IF s = <<>> THEN <<>>
    ELSE IF StartsWith(s, from)
         THEN to \o Replace(SubSeq(s, Len(from) + 1, Len(s)), from, to)
         ELSE <<Head(s)>> \o Replace(Tail(s), from, to)

\* OsString::into_string succeeds
IsValidUnicode(s) == \A n \in 1..Len(s) : s[n] # BADBYTE

-----------------------------------------------------------------------------
(* str::parse::<i64> and str::parse::<f64>, the two parses of collect *)

DigitSeq == <<"0", "1", "2", "3", "4", "5", "6", "7", "8", "9">>

\* char::to_digit(10) of a decimal digit
DigitVal(c) == (CHOOSE n \in 1..Len(DigitSeq) : DigitSeq[n] = c) - 1

\* i64::MAX = 9223372036854775807
I64MaxDigits ==
    <<"9", "2", "2", "3", "3", "7", "2", "0", "3", "6", "8", "5", "4", "7", "7", "5", "8", "0", "7">>

\* the magnitude of i64::MIN = -9223372036854775808
I64MinDigits ==
    <<"9", "2", "2", "3", "3", "7", "2", "0", "3", "6", "8", "5", "4", "7", "7", "5", "8", "0", "8">>

RECURSIVE StripZeros(_)
StripZeros(d) ==
    IF d # <<>> /\ Head(d) = "0" THEN StripZeros(Tail(d)) ELSE d

\* a <= b, for digit strings without leading zeros
RECURSIVE DigitsLeq(_, _)
DigitsLeq(a, b) ==
    IF Len(a) # Len(b) THEN Len(a) < Len(b)
    ELSE IF a = <<>> THEN TRUE
    ELSE IF Head(a) # Head(b) THEN DigitVal(Head(a)) < DigitVal(Head(b))
    ELSE DigitsLeq(Tail(a), Tail(b))

\* the index of the first character of s at or after n that is no digit
RECURSIVE SkipDigits(_, _)
SkipDigits(s, n) ==
    IF n <= Len(s) /\ s[n] \in Digits THEN SkipDigits(s, n + 1) ELSE n

\* <i64 as FromStr>::from_str: an optional sign, then digits only, and the
\* number has to fit in 64 bits.  The number is kept as its decimal rendering.
ParseI64(s) ==
    LET neg    == s # <<>> /\ Head(s) = "-"
        signed == s # <<>> /\ Head(s) \in {"+", "-"}
        body   == IF signed THEN Tail(s) ELSE s
        mag    == StripZeros(body)
    IN  IF body = <<>> \/ SkipDigits(body, 1) # Len(body) + 1
        THEN [ok |-> FALSE, val |-> <<>>]
        ELSE IF ~DigitsLeq(mag, IF neg THEN I64MinDigits ELSE I64MaxDigits)
        THEN [ok |-> FALSE, val |-> <<>>]
        ELSE [ok |-> TRUE,
              val |-> IF mag = <<>> THEN <<"0">>
                      ELSE IF neg THEN <<"-">> \o mag ELSE mag]

\* u8::to_ascii_lowercase on the letters of "infinity" and "nan"
AsciiLower(c) ==
    CASE c = "I" -> "i" [] c = "N" -> "n" [] c = "F" -> "f" [] c = "T" -> "t"
      [] c = "Y" -> "y" [] c = "A" -> "a" [] OTHER -> c

\* <f64 as FromStr>::from_str (core::num::dec2flt): an optional sign, then
\* digits with at most one point and at least one digit, then an optional
\* exponent (e or E, an optional sign, at least one digit), all of the string;
\* or, after the sign, inf, infinity or nan in any letter case.  The number
\* is kept as the literal that denotes it.
ParseF64(s) ==
    LET signed == s # <<>> /\ Head(s) \in {"+", "-"}
        body   == IF signed THEN Tail(s) ELSE s
        n1     == SkipDigits(body, 1)
        point  == n1 <= Len(body) /\ body[n1] = "."
        n2     == IF point THEN SkipDigits(body, n1 + 1) ELSE n1
        ndig   == (n1 - 1) + (IF point THEN n2 - n1 - 1 ELSE 0)
        expo   == n2 <= Len(body) /\ body[n2] \in {"e", "E"}
        n3     == IF expo /\ n2 + 1 <= Len(body) /\ body[n2 + 1] \in {"+", "-"}
                  THEN n2 + 2 ELSE n2 + 1
        n4     == IF expo THEN SkipDigits(body, n3) ELSE n2
        number == ndig > 0 /\ (expo => n4 > n3) /\ n4 = Len(body) + 1
        word   == [n \in 1..Len(body) |-> AsciiLower(body[n])]
        special == word \in {<<"n", "a", "n">>, <<"i", "n", "f">>,
                             <<"i", "n", "f", "i", "n", "i", "t", "y">>}
    IN  IF body # <<>> /\ (number \/ special)
        THEN [ok |-> TRUE, val |-> s]
        ELSE [ok |-> FALSE, val |-> <<>>]

-----------------------------------------------------------------------------
(* The Environment struct and its builder *)

\* Option<String>
None == [some |-> FALSE, v |-> <<>>]

Some(s) == [some |-> TRUE, v |-> s]

\* impl Default for Environment
default ==
    [prefix |-> None, separator |-> None, ignore_empty |-> FALSE, parse_numbers |-> FALSE]

\* Environment::new
new == default

\* Environment::with_prefix
with_prefix(s) == [default EXCEPT !.prefix = Some(s)]

\* Environment::prefix
prefix(self, s) == [self EXCEPT !.prefix = Some(s)]

\* a separator() that writes the prefix field
separator_into_prefix(self, s) == [self EXCEPT !.prefix = Some(s)]

\* Environment::separator
separator(self, s) == [self EXCEPT !.separator = Some(s)]

\* Environment::ignore_empty
ignore_empty(self, ignore) == [self EXCEPT !.ignore_empty = ignore]

\* Environment::parse_numbers
parse_numbers(self, parse) == [self EXCEPT !.parse_numbers = parse]

-----------------------------------------------------------------------------
(* The steps of Environment::collect on one (key, value) pair *)

\* let uri: String = "the environment".into()
uri == "the environment"

\* let separator = match self.separator { Some(ref separator) => separator, _ => "" }
SeparatorOf(self) == IF self.separator.some THEN self.separator.v ELSE <<>>

\* a prefix pattern without the "_"
PrefixPatternBare(self) == self.prefix

\* let prefix_pattern = self.prefix.as_ref().map(|prefix| prefix.clone() + "_")
PrefixPattern(self) ==
    IF self.prefix.some THEN Some(self.prefix.v \o <<"_">>) ELSE None

\* || in the place of &&
SkipsEmptyEither(self, value) == self.ignore_empty \/ value = <<>>

\* if self.ignore_empty && value.is_empty() { continue; }
SkipsEmpty(self, value) == self.ignore_empty /\ value = <<>>

\* key.to_lowercase().starts_with(&prefix_pattern.to_lowercase())
MatchesPrefix(key, pattern) == StartsWith(ToLowercase(key), ToLowercase(pattern))

\* key = key[prefix_pattern.len()..].to_string()
StripPrefix(key, pattern) == SliceFrom(key, ByteLen(pattern))

\* the replacement without its guard
ApplySeparatorUnguarded(key, sep) == Replace(key, sep, <<".">>)

\* if !separator.is_empty() { key = key.replace(separator, "."); }
ApplySeparator(key, sep) == IF sep # <<>> THEN Replace(key, sep, <<".">>) ELSE key

\* Value::new(Some(&uri), kind)
Value(kind, val) == [kind |-> kind, val |-> val, origin |-> uri]

\* the float parse tried before the integer parse
ParseValueFloatFirst(self, value) ==
    IF self.parse_numbers
    THEN IF ParseF64(value).ok THEN Value("Float", ParseF64(value).val)
         ELSE IF ParseI64(value).ok THEN Value("Integer", ParseI64(value).val)
         ELSE Value("String", value)
    ELSE Value("String", value)

\* let value = if self.parse_numbers { ... } else { ValueKind::String(value) }
ParseValue(self, value) ==
    IF self.parse_numbers
    THEN IF ParseI64(value).ok THEN Value("Integer", ParseI64(value).val)
         ELSE IF ParseF64(value).ok THEN Value("Float", ParseF64(value).val)
         ELSE Value("String", value)
    ELSE Value("String", value)

\* the key inserted as it is
FinalKeyAsIs(key) == key

\* the key of m.insert(key.to_lowercase(), ...)
FinalKey(key) == ToLowercase(key)

\* HashMap::new
EmptyMap == [k \in {} |-> k]

\* an insert that keeps the entry a key already has (entry().or_insert())
InsertIfAbsent(map, k, v) ==
    [x \in DOMAIN map \cup {k} |-> IF x \in DOMAIN map THEN map[x] ELSE v]

\* HashMap::insert: the entry of k is replaced, the others are kept
Insert(map, k, v) == [x \in DOMAIN map \cup {k} |-> IF x = k THEN v ELSE map[x]]

\* an iterator kept from the call before: the walk goes on where it stopped
StalePosition == i

\* the first position of the iteration of env::vars(): every call of collect
\* takes a new snapshot and walks it from its start
FirstPosition == 1

-----------------------------------------------------------------------------
(* The inputs: arguments of the builder and environments *)

PrefixArgs == {<<"k">>, <<KELVIN>>}

SeparatorArgs == {<<>>, <<"_">>, <<"_", "X">>}

SeqsUpTo(S, n) == UNION {[1..k -> S] : k \in 0..n}

Var(key, value) == [key |-> key, value |-> value]

\* the variables the environments are made of
EnvVars ==
    { Var(<<"K", "_", "X">>, <<"1">>),             \* K_X=1
      Var(<<"k", "_", "x">>, <<>>),                \* k_x=
      Var(<<"K">>, <<"a">>),                       \* K=a
      Var(<<"X", "_", "Y">>, <<"a">>),             \* X_Y=a
      Var(<<"X", ".", "Y">>, <<>>),                \* X.Y=
      Var(<<KELVIN, "_", "X">>, <<"a">>),          \* (U+212A)_X=a
      Var(<<"k", "_", "X", "_", "Y">>, <<"0", ".", "5">>),   \* k_X_Y=0.5
      Var(<<"X">>, <<BADBYTE>>) }                  \* X=(a byte that is no Unicode)

\* the characters of the values drawn exhaustively
ValueChars == {"1", "-", ".", "e", "x"}

Str8080 == <<"8", "0", "8", "0">>

Str05 == <<"0", ".", "5">>

StrAbc == <<"a", "b", "c">>

Str100 == <<"1", ".", "0", ".", "0">>

SampleValues ==
    { Str8080, Str05, StrAbc, Str100,
      <<"8", "0", "8", "0", "a">>, <<"0", ".", "5", "x">>,
      <<"+", "7">>, <<"-", "0", "7">>, <<"1", "e", "-", "1">>, <<"1", "E", "1">>,
      <<"n", "a", "n">>, <<"N", "a", "N">>, <<"-", "i", "n", "f">>,
      <<"i", "n", "f", "i", "n", "i", "t", "y">>, <<"i", "n", "f", "i">>,
      I64MaxDigits, I64MinDigits, <<"-">> \o I64MinDigits,
      <<"-">> \o I64MaxDigits \o <<"0">> }

ParseValues == SeqsUpTo(ValueChars, MaxValLen) \cup SampleValues

\* the environments: up to MaxEnv of the variables above, in any order, or
\* the one variable X holding any of the values
Environments ==
    SeqsUpTo(EnvVars, MaxEnv) \cup {<<Var(<<"X">>, v)>> : v \in ParseValues}

-----------------------------------------------------------------------------
(* The state machine *)

NoResult == [tag |-> "None", map |-> EmptyMap]

Ok(map) == [tag |-> "Ok", map |-> map]

Init ==
    /\ env \in Environments
    /\ \E c \in {None} \cup {Some(s) : s \in PrefixArgs} :
          /\ cfg = IF c.some THEN with_prefix(c.v) ELSE new
          /\ last = [prefix |-> c, separator |-> None,
                     ignore_empty |-> FALSE, parse_numbers |-> FALSE]
    /\ fresh = TRUE
    /\ pc = "idle"
    /\ i = 1
    /\ m = EmptyMap
    /\ src = EmptyMap
    /\ result = NoResult
    /\ prev = NoResult

\* a mutator consumes the configuration and gives the updated one; what an
\* earlier collect() returned was of the configuration before
Rebuilt(c) ==
    /\ pc = "idle"
    /\ cfg' = c
    /\ fresh' = FALSE
    /\ result' = NoResult
    /\ prev' = NoResult
    /\ UNCHANGED <<env, pc, i, m, src>>

Prefix ==
    \E s \in PrefixArgs :
        /\ Rebuilt(prefix(cfg, s))
        /\ last' = [last EXCEPT !.prefix = Some(s)]

Separator ==
    \E s \in SeparatorArgs :
        /\ Rebuilt(separator(cfg, s))
        /\ last' = [last EXCEPT !.separator = Some(s)]

IgnoreEmpty ==
    \E b \in BOOLEAN :
        /\ Rebuilt(ignore_empty(cfg, b))
        /\ last' = [last EXCEPT !.ignore_empty = b]

ParseNumbers ==
    \E b \in BOOLEAN :
        /\ Rebuilt(parse_numbers(cfg, b))
        /\ last' = [last EXCEPT !.parse_numbers = b]

\* collect(): let mut m = HashMap::new(); ... for (key, value) in env::vars()
CollectBegin ==
    /\ pc = "idle"
    /\ pc' = "collecting"
    /\ i' = FirstPosition
    /\ m' = EmptyMap
    /\ src' = EmptyMap
    /\ prev' = result
    /\ result' = NoResult
    /\ UNCHANGED <<cfg, env, last, fresh>>

InLoop == pc = "collecting" /\ i <= Len(env)

Panic ==
    /\ pc' = "panicked"
    /\ UNCHANGED <<cfg, env, i, m, src, result, prev, last, fresh>>

Continue ==
    /\ i' = i + 1
    /\ UNCHANGED <<cfg, env, pc, m, src, result, prev, last, fresh>>

\* env::vars() panics on a key or value that is not valid Unicode
StepNotUnicode ==
    /\ InLoop
    /\ ~(IsValidUnicode(env[i].key) /\ IsValidUnicode(env[i].value))
    /\ Panic

Readable == InLoop /\ IsValidUnicode(env[i].key) /\ IsValidUnicode(env[i].value)

\* an empty value is treated as unset
StepSkipEmpty ==
    /\ Readable
    /\ SkipsEmpty(cfg, env[i].value)
    /\ Continue

\* the key does not start with the prefix pattern
StepSkipPrefix ==
    /\ Readable
    /\ ~SkipsEmpty(cfg, env[i].value)
    /\ PrefixPattern(cfg).some
    /\ ~MatchesPrefix(env[i].key, PrefixPattern(cfg).v)
    /\ Continue

\* the key starts with the prefix pattern and the slice that removes it panics
StepSlicePanics ==
    /\ Readable
    /\ ~SkipsEmpty(cfg, env[i].value)
    /\ PrefixPattern(cfg).some
    /\ MatchesPrefix(env[i].key, PrefixPattern(cfg).v)
    /\ ~StripPrefix(env[i].key, PrefixPattern(cfg).v).ok
    /\ Panic

\* the key after the prefix step of a pair that reaches it
Stripped(self, key) ==
    IF PrefixPattern(self).some THEN StripPrefix(key, PrefixPattern(self).v).str ELSE key

\* the key and the value a pair that is not skipped is inserted with
KeyOf(self, key) == FinalKey(ApplySeparator(Stripped(self, key), SeparatorOf(self)))

StepInsert ==
    /\ Readable
    /\ ~SkipsEmpty(cfg, env[i].value)
    /\ PrefixPattern(cfg).some =>
          /\ MatchesPrefix(env[i].key, PrefixPattern(cfg).v)
          /\ StripPrefix(env[i].key, PrefixPattern(cfg).v).ok
    /\ m' = Insert(m, KeyOf(cfg, env[i].key), ParseValue(cfg, env[i].value))
    /\ src' = [k \in DOMAIN m \cup {KeyOf(cfg, env[i].key)} |->
                   IF k = KeyOf(cfg, env[i].key) THEN i ELSE src[k]]
    /\ i' = i + 1
    /\ UNCHANGED <<cfg, env, pc, result, prev, last, fresh>>

\* Ok(m)
CollectReturn ==
    /\ pc = "collecting"
    /\ i > Len(env)
    /\ pc' = "idle"
    /\ result' = Ok(m)
    /\ UNCHANGED <<cfg, env, i, m, src, prev, last, fresh>>

Next ==
    \/ Prefix
    \/ Separator
    \/ IgnoreEmpty
    \/ ParseNumbers
    \/ CollectBegin
    \/ StepNotUnicode
    \/ StepSkipEmpty
    \/ StepSkipPrefix
    \/ StepSlicePanics
    \/ StepInsert
    \/ CollectReturn

Spec == Init /\ [][Next]_vars

-----------------------------------------------------------------------------
(* Properties *)

\* the latest collect() has returned its map
Returned == pc = "idle" /\ result.tag = "Ok"

\* name starts with p followed by "_", letter case ignored
HasPrefixIgnoringCase(name, p) ==
    /\ Len(name) >= Len(p) + 1
    /\ \A n \in 1..Len(p) : LowerOf(name[n]) = LowerOf(p[n])
    /\ name[Len(p) + 1] = "_"

\* what follows the matched prefix and its "_" in name
AfterPrefix(name, p) == SubSeq(name, Len(p) + 2, Len(name))

\* the pair at position j is not dropped for its empty value nor by the prefix filter
Kept(j) ==
    /\ ~(cfg.ignore_empty /\ env[j].value = <<>>)
    /\ cfg.prefix.some => HasPrefixIgnoringCase(env[j].key, cfg.prefix.v)

\* C1: with a prefix configured, every entry of the returned map was written
\* by a variable whose name starts, letter case ignored, with prefix + "_",
\* and a variable whose name does not (the bare prefix included) wrote no entry.
C1_OnlyPrefixedVariables ==
    (Returned /\ cfg.prefix.some) =>
        /\ DOMAIN src = DOMAIN result.map
        /\ \A k \in DOMAIN result.map :
              HasPrefixIgnoringCase(env[src[k]].key, cfg.prefix.v)
        /\ \A j \in 1..Len(env) :
              ~HasPrefixIgnoringCase(env[j].key, cfg.prefix.v) =>
                  \A k \in DOMAIN result.map : src[k] # j

\* prefix "k", environment holding K (the bare prefix) and K_X: one entry, x
C1_Witness ==
    /\ Returned
    /\ cfg.prefix = Some(<<"k">>)
    /\ \E j \in 1..Len(env) : env[j].key = <<"K">>
    /\ \E j \in 1..Len(env) : env[j].key = <<"K", "_", "X">>
    /\ DOMAIN result.map = {<<"x">>}

\* C2: with a prefix and no separator, every kept variable whose name starts,
\* letter case ignored, with prefix + "_" has the lower-cased rest of its
\* name, after exactly the matched part, as a key of the returned map.
C2_StripsMatchedPrefix ==
    (Returned /\ cfg.prefix.some /\ ~cfg.separator.some) =>
        \A j \in 1..Len(env) :
            Kept(j) =>
                ToLowercase(AfterPrefix(env[j].key, cfg.prefix.v)) \in DOMAIN result.map

\* C2 on the names whose prefix part has the byte length of the pattern
C2_AsciiCase ==
    (Returned /\ cfg.prefix.some /\ ~cfg.separator.some) =>
        \A j \in 1..Len(env) :
            (Kept(j) /\ ByteLen(SubSeq(env[j].key, 1, Len(cfg.prefix.v)))
                          = ByteLen(cfg.prefix.v)) =>
                ToLowercase(AfterPrefix(env[j].key, cfg.prefix.v)) \in DOMAIN result.map

\* C6: collect() never aborts: whatever the configuration and the
\* environment, it runs to its end and returns Ok with a map.
C6_NeverAborts == pc # "panicked"

\* C8: a new configuration has no prefix (or the one with_prefix was given),
\* no separator, ignore_empty and parse_numbers false; afterwards each field
\* holds the argument of the last call of its own mutator, or its first value.
C8_BuilderFields ==
    /\ cfg = last
    /\ fresh =>
          /\ cfg.separator = None
          /\ cfg.ignore_empty = FALSE
          /\ cfg.parse_numbers = FALSE
          /\ cfg.prefix \in {None} \cup {Some(s) : s \in PrefixArgs}

\* every mutator has been called, the last calls giving these four values
C8_Witness ==
    /\ ~fresh
    /\ cfg.prefix = Some(<<KELVIN>>)
    /\ cfg.separator = Some(<<"_">>)
    /\ cfg.ignore_empty
    /\ ~cfg.parse_numbers
    /\ last.parse_numbers = FALSE

\* C9: every key of the returned map is lower-cased, whatever the prefix and
\* the separator, and every value has the origin "the environment".
C9_LowerCaseKeys ==
    Returned =>
        \A k \in DOMAIN result.map :
            /\ \A n \in 1..Len(k) : k[n] \notin UpperChars
            /\ result.map[k].origin = "the environment"

\* prefix "k", separator "_", variable k_X_Y: the key x.y
C9_Witness ==
    /\ Returned
    /\ cfg.prefix = Some(<<"k">>)
    /\ cfg.separator = Some(<<"_">>)
    /\ \E j \in 1..Len(env) : env[j].key = <<"k", "_", "X", "_", "Y">>
    /\ <<"x", ".", "y">> \in DOMAIN result.map

\* sep occurs in s at position n
OccursAt(s, sep, n) ==
    n + Len(sep) - 1 <= Len(s) /\ SubSeq(s, n, n + Len(sep) - 1) = sep

\* s with every occurrence of sep turned into ".", for a separator whose
\* occurrences cannot overlap (no proper suffix of it is a prefix of it):
\* the first character of an occurrence becomes ".", its others go
Dotted(s, sep) ==
    LET mark == [n \in 1..Len(s) |->
                    IF OccursAt(s, sep, n) THEN "."
                    ELSE IF \E q \in 1..Len(s) :
                              OccursAt(s, sep, q) /\ q < n /\ n <= q + Len(sep) - 1
                    THEN ""
                    ELSE s[n]]
        IsChar(c) == c # ""
    IN  SelectSeq(mark, IsChar)

\* the configured separator, "" when there is none
ConfiguredSeparator == IF cfg.separator.some THEN cfg.separator.v ELSE <<>>

\* the key the pair at position j is meant to get from its key after the prefix step
DottedKey(j) ==
    LET stripped == Stripped(cfg, env[j].key)
        dotted   == IF ConfiguredSeparator = <<>> THEN stripped
                    ELSE Dotted(stripped, ConfiguredSeparator)
    IN  [n \in 1..Len(dotted) |-> LowerOf(dotted[n])]

\* C3: with a non-empty separator, the key of every kept variable is its
\* name (after the prefix step) with every occurrence of the separator
\* replaced by "." and then lower-cased; with no separator or the empty one
\* the name is only lower-cased.
C3_SeparatorBecomesDot ==
    Returned =>
        /\ \A j \in 1..Len(env) : Kept(j) => DottedKey(j) \in DOMAIN result.map
        /\ \A k \in DOMAIN result.map : k = DottedKey(src[k])

\* separator "_", no prefix, variable k_X_Y: the key k.x.y
C3_Witness ==
    /\ Returned
    /\ cfg.separator = Some(<<"_">>)
    /\ ~cfg.prefix.some
    /\ \E j \in 1..Len(env) : env[j].key = <<"k", "_", "X", "_", "Y">>
    /\ <<"k", ".", "x", ".", "y">> \in DOMAIN result.map

\* the pairs after position j that are kept and get the key of the pair at j
LaterSameKey(j) ==
    {q \in (j + 1)..Len(env) :
        Kept(q) /\ KeyOf(cfg, env[q].key) = KeyOf(cfg, env[j].key)}

\* with ignore_empty, a variable with the empty value writes no entry
EmptyIsUnset ==
    cfg.ignore_empty =>
        \A k \in DOMAIN result.map : env[src[k]].value # <<>>

\* C4 as claimed: with ignore_empty a variable with the empty value writes
\* no entry; without it, if it passes the prefix filter, the returned map
\* holds its key with the value String("").
C4_EmptyValues ==
    Returned =>
        /\ EmptyIsUnset
        /\ ~cfg.ignore_empty =>
              \A j \in 1..Len(env) :
                  (Kept(j) /\ env[j].value = <<>>) =>
                      /\ KeyOf(cfg, env[j].key) \in DOMAIN result.map
                      /\ result.map[KeyOf(cfg, env[j].key)] = Value("String", <<>>)

\* C4 amended: ... without it, if it passes the prefix filter, the returned
\* map holds its key, with the value String("") unless a variable processed
\* later gets the same key.
C4_EmptyValuesUnlessOverwritten ==
    Returned =>
        /\ EmptyIsUnset
        /\ ~cfg.ignore_empty =>
              \A j \in 1..Len(env) :
                  (Kept(j) /\ env[j].value = <<>>) =>
                      /\ KeyOf(cfg, env[j].key) \in DOMAIN result.map
                      /\ LaterSameKey(j) = {} =>
                            result.map[KeyOf(cfg, env[j].key)] = Value("String", <<>>)

\* ignore_empty off: X.Y= followed by K=a gives x.y = String("") and k = String("a")
C4_Witness ==
    /\ Returned
    /\ ~cfg.ignore_empty
    /\ ~cfg.prefix.some
    /\ Len(env) = 2
    /\ env[1].value = <<>>
    /\ env[2].value # <<>>
    /\ LaterSameKey(1) = {}
    /\ result.map[KeyOf(cfg, env[1].key)] = Value("String", <<>>)
    /\ Cardinality(DOMAIN result.map) = 2

\* s is an optional sign and then one digit or more
SignedDigits(s) ==
    LET body == IF s # <<>> /\ s[1] \in {"+", "-"} THEN Tail(s) ELSE s
    IN  body # <<>> /\ \A n \in 1..Len(body) : body[n] \in Digits

\* s is a decimal integer that fits in 64 bits
IntegerLiteral(s) ==
    /\ SignedDigits(s)
    /\ LET body == IF s[1] \in {"+", "-"} THEN Tail(s) ELSE s
           lead == {n \in 1..Len(body) : \A q \in 1..n : body[q] = "0"}
           mag  == SubSeq(body, Cardinality(lead) + 1, Len(body))
           top  == IF s[1] = "-" THEN I64MinDigits ELSE I64MaxDigits
       IN  \/ Len(mag) < Len(top)
           \/ /\ Len(mag) = Len(top)
              /\ \/ mag = top
                 \/ \E n \in 1..Len(top) :
                       /\ SubSeq(mag, 1, n - 1) = SubSeq(top, 1, n - 1)
                       /\ DigitVal(mag[n]) < DigitVal(top[n])

\* s is digits with at most one point among them, one digit at least
Mantissa(s) ==
    /\ \A n \in 1..Len(s) : s[n] \in Digits \cup {"."}
    /\ Cardinality({n \in 1..Len(s) : s[n] = "."}) <= 1
    /\ \E n \in 1..Len(s) : s[n] \in Digits

\* a letter of "infinity" or "nan", small and capital
BothCases(c) ==
    CASE c = "i" -> {"i", "I"} [] c = "n" -> {"n", "N"} [] c = "f" -> {"f", "F"}
      [] c = "t" -> {"t", "T"} [] c = "y" -> {"y", "Y"} [] c = "a" -> {"a", "A"}

\* s is a floating-point literal: sign, mantissa and exponent, or a spelling
\* of infinity or NaN
FloatLiteral(s) ==
    LET body == IF s # <<>> /\ s[1] \in {"+", "-"} THEN Tail(s) ELSE s
    IN  \/ \E n \in 1..Len(body) :
              /\ Mantissa(SubSeq(body, 1, n))
              /\ \/ n = Len(body)
                 \/ /\ body[n + 1] \in {"e", "E"}
                    /\ SignedDigits(SubSeq(body, n + 2, Len(body)))
        \/ \E w \in {<<"n", "a", "n">>, <<"i", "n", "f">>,
                      <<"i", "n", "f", "i", "n", "i", "t", "y">>} :
              /\ Len(body) = Len(w)
              /\ \A n \in 1..Len(w) : body[n] \in BothCases(w[n])

\* the kind a value string is meant to get
KindOf(s) ==
    IF ~cfg.parse_numbers THEN "String"
    ELSE IF IntegerLiteral(s) THEN "Integer"
    ELSE IF FloatLiteral(s) THEN "Float"
    ELSE "String"

\* C5: the kind of every value of the returned map comes from the raw value
\* string alone: String(value) unchanged without parse_numbers; with it,
\* Integer when the whole string is an integer, else Float when the whole
\* string is a floating-point number, else String(value) unchanged (8080 is
\* an Integer, 0.5 a Float, abc and 1.0.0 are Strings); a string that only
\* begins with a number is a String.
C5_ValueKinds ==
    Returned =>
        \A k \in DOMAIN result.map :
            LET raw == env[src[k]].value
                e   == result.map[k]
            IN  /\ e.kind = KindOf(raw)
                /\ e.kind = "String" => e.val = raw
                /\ cfg.parse_numbers =>
                      /\ raw = Str8080 => e = Value("Integer", Str8080)
                      /\ raw = Str05 => e = Value("Float", Str05)
                      /\ raw = StrAbc => e = Value("String", StrAbc)
                      /\ raw = Str100 => e = Value("String", Str100)
                      /\ (\E n \in 1..Len(raw) : raw[n] \in {"x", "b", "c"}) =>
                            e = Value("String", raw)

\* parse_numbers on, X=1.0.0: x = String("1.0.0")
C5_Witness ==
    /\ Returned
    /\ cfg.parse_numbers
    /\ Len(env) = 1
    /\ env[1].value = Str100
    /\ result.map = (<<"x">> :> Value("String", Str100))

Writers(k) == {j \in 1..Len(env) : Kept(j) /\ KeyOf(cfg, env[j].key) = k}

\* the last of a non-empty set of positions
Latest(S) == CHOOSE j \in S : \A q \in S : q <= j

\* C10: the keys of the returned map are those of the kept variables, one
\* entry each, and when several variables get the same key its value is that
\* of the one processed last; the other keys keep the values of their own
\* variables.
C10_LastWriteWins ==
    Returned =>
        /\ DOMAIN result.map = {KeyOf(cfg, env[j].key) : j \in {q \in 1..Len(env) : Kept(q)}}
        /\ \A k \in DOMAIN result.map :
              result.map[k] = ParseValue(cfg, env[Latest(Writers(k))].value)

\* k_x= then K_X=1 with parse_numbers: the one entry k_x = Integer(1)
C10_Witness ==
    /\ Returned
    /\ cfg.parse_numbers
    /\ Len(env) = 2
    /\ env[1].value = <<>>
    /\ env[2].value = <<"1">>
    /\ Writers(KeyOf(cfg, env[1].key)) = {1, 2}
    /\ result.map = (KeyOf(cfg, env[1].key) :> Value("Integer", <<"1">>))

====
